---- MODULE Spec2Model ----
(***************************************************************************)
(* The blur benchmark harness of labs/module9/C/Async/main.cpp: argument   *)
(* check, load, three output buffers, warm-up, three timed variant calls,  *)
(* the element-wise comparison of output1 with output2, the verdict, the   *)
(* in-place copy into the input buffer, the store and the release.         *)
(*                                                                         *)
(* blur5, blur5_serial and blur5_parallel are only declared in main.cpp    *)
(* (extern "C").  Spec treats a variant call as an external function that  *)
(* fills its destination with any samples.  SpecBlur runs the same harness *)
(* with the three variants as the design document describes them.          *)
(*                                                                         *)
(* C index k of a buffer is element k+1 of the TLA+ sequence.              *)
(***************************************************************************)
EXTENDS Integers, Sequences, FiniteSets, TLC

VARIABLES
    pc,        \* position of main
    argc,      \* main's argument count
    w, h, ch,  \* geometry filled in by readImage (0 before the load)
    mem,       \* contents of data, output1, output2, output3
    heap,      \* "none" | "live" | "freed" for each buffer
    st,        \* whether a timing bracket is open (st read, duration not yet printed)
    i,         \* the comparison loop's int index
    success,   \* the comparison loop's flag
    out,       \* lines written to standard output
    err,       \* lines written to the error stream
    status,    \* <<>> while running, <<v>> once main has returned v
    stored,    \* the images handed to writeImage, in order
    loaded,    \* history: the image readImage returned
    trace,     \* history: the harness events, in order
    fills,     \* history: for each buffer, who filled it, in order
    active,    \* <<>> or <<call>>: the variant call in progress
    nthreads,  \* size of the worker pool (0 until the first parallel region)
    job,       \* per worker: the rows still to do and the offset in the first
    pool       \* rows of a dynamically scheduled loop not yet taken

vars == <<pc, argc, w, h, ch, mem, heap, st, i, success, out, err, status,
          stored, loaded, trace, fills, active, nthreads, job, pool>>

----------------------------------------------------------------------------
(* Bounds of the model *)

\* largest argument count tried
MaxArgc == 3
\* largest number of samples w*h*ch of a loaded image
MaxLen == 4
\* number of non-zero sample values tried
MaxSample == 1
\* width of int, scaled down from 32 so that w*h*ch can exceed INT_MAX
IntBits == 3
\* largest worker pool
MaxWorkers == 2

----------------------------------------------------------------------------
(* Values *)

RECURSIVE Pow2(_)
Pow2(n) == IF n = 0 THEN 1 ELSE 2 * Pow2(n - 1)

IntMax == Pow2(IntBits - 1) - 1
IntMin == 0 - Pow2(IntBits - 1)

Buffers == {"data", "output1", "output2", "output3"}
Outputs == {"output1", "output2", "output3"}

\* unsigned char holds 0 .. Byte - 1
Byte == 256

\* the sample values tried: 0 and the MaxSample largest bytes
Samples == {0} \cup ((Byte - MaxSample) .. (Byte - 1))

\* an element of a new[] array that nothing has written yet
Uninit == 0 - 1

Geometries ==
    {g \in (1 .. MaxLen) \X (1 .. MaxLen) \X (1 .. MaxLen) :
        g[1] * g[2] * g[3] <= MaxLen}

\* all zero, or one non-zero sample: two of them agree up to any chosen index
Impulses(n) ==
    {[k \in 1 .. n |-> IF k = j THEN a ELSE 0] :
        <<a, j>> \in Samples \X (1 .. n)}

\* the images tried as input: the impulses and the uniform images
Images(n) == Impulses(n) \cup {[k \in 1 .. n |-> a] : a \in Samples}

\* the contents an external variant is tried with
Results(n) == Impulses(n)

\* w*h*ch, computed in long
Size == w * h * ch

Ev(e, f, s, d) == [ev |-> e, fn |-> f, src |-> s, dst |-> d]

Plain(e) == Ev(e, "", "", "")

Usage == "Usage: inFilename outFilename"
LineBlur5 == "Time taken for blur5"
LineRunning == "Running serial and baseline parallel for comparison..."
LineSerial == "Time taken for serial blur5"
LineParallel == "Time taken for baseline parallel blur5"
LineChecking == "Checking results for comparison..."
LineCorrect == "Code results are correct."
LineIncorrect == "Code results are incorrect."

----------------------------------------------------------------------------
(* Initial state: the process has been started with argc arguments *)

Init ==
    /\ pc = "start"
    /\ argc \in 0 .. MaxArgc
    /\ w = 0 /\ h = 0 /\ ch = 0
    /\ mem = [b \in Buffers |-> <<>>]
    /\ heap = [b \in Buffers |-> "none"]
    /\ st = FALSE
    /\ i = 0
    /\ success = FALSE
    /\ out = <<>>
    /\ err = <<>>
    /\ status = <<>>
    /\ stored = <<>>
    /\ loaded = <<>>
    /\ trace = <<>>
    /\ fills = [b \in Buffers |-> <<>>]
    /\ active = <<>>
    /\ nthreads = 0
    /\ job = <<>>
    /\ pool = {}

----------------------------------------------------------------------------
(* main, statement by statement *)

\* the argument check with its bound off by one
ArgCheckOffByOne ==
    /\ pc = "start"
    /\ IF argc < 2
       THEN /\ err' = Append(err, Usage)
            /\ status' = <<0 - 1>>
            /\ pc' = "exit"
       ELSE /\ pc' = "load"
            /\ UNCHANGED <<err, status>>
    /\ UNCHANGED <<argc, w, h, ch, mem, heap, st, i, success, out, stored,
                   loaded, trace, fills, active, nthreads, job, pool>>

\* if (argc < 3) { fprintf(stderr, ...); return -1; }
ArgCheck ==
    /\ pc = "start"
    /\ IF argc < 3
       THEN /\ err' = Append(err, Usage)
            /\ status' = <<0 - 1>>
            /\ pc' = "exit"
       ELSE /\ pc' = "load"
            /\ UNCHANGED <<err, status>>
    /\ UNCHANGED <<argc, w, h, ch, mem, heap, st, i, success, out, stored,
                   loaded, trace, fills, active, nthreads, job, pool>>

\* unsigned char* data = readImage(argv[1], w, h, ch);
Load ==
    /\ pc = "load"
    /\ \E g \in Geometries :
         \E img \in Images(g[1] * g[2] * g[3]) :
            /\ w' = g[1] /\ h' = g[2] /\ ch' = g[3]
            /\ mem' = [mem EXCEPT !["data"] = img]
            /\ loaded' = img
    /\ heap' = [heap EXCEPT !["data"] = "live"]
    /\ fills' = [fills EXCEPT !["data"] = Append(@, "readImage")]
    /\ trace' = Append(trace, Plain("load"))
    /\ pc' = "alloc"
    /\ UNCHANGED <<argc, st, i, success, out, err, status, stored, active,
                   nthreads, job, pool>>

\* output1, output2, output3 = new unsigned char[w*h*ch];
Alloc ==
    /\ pc = "alloc"
    /\ mem' = [b \in Buffers |->
                 IF b \in Outputs THEN [k \in 1 .. Size |-> Uninit] ELSE mem[b]]
    /\ heap' = [b \in Buffers |-> IF b \in Outputs THEN "live" ELSE heap[b]]
    /\ trace' = Append(trace, Plain("alloc"))
    /\ pc' = "warmup"
    /\ UNCHANGED <<argc, w, h, ch, st, i, success, out, err, status, stored,
                   loaded, fills, active, nthreads, job, pool>>

\* a call f(s, d, w, h, ch) made at position `at`, returning to `to`
Invoke(at, f, s, d, to) ==
    /\ pc = at
    /\ active = <<>>
    /\ active' = <<[fn |-> f, src |-> s, dst |-> d, ret |-> to]>>
    /\ trace' = trace \o <<Ev("call", f, s, d)>>
    /\ pc' = "called"

\* the warm-up call writing into output1 instead of output3
WarmupIntoOutput1 ==
    /\ Invoke("warmup", "blur5", "data", "output1", "time1")
    /\ UNCHANGED <<argc, w, h, ch, mem, heap, st, i, success, out, err,
                   status, stored, loaded, fills, nthreads, job, pool>>

\* blur5(data, output3, w, h, ch);
Warmup ==
    /\ Invoke("warmup", "blur5", "data", "output3", "time1")
    /\ UNCHANGED <<argc, w, h, ch, mem, heap, st, i, success, out, err,
                   status, stored, loaded, fills, nthreads, job, pool>>

\* double st = omp_get_wtime();  (or st = omp_get_wtime();)
Tic(at, to) ==
    /\ pc = at
    /\ st' = TRUE
    /\ trace' = Append(trace, Plain("tic"))
    /\ pc' = to
    /\ UNCHANGED <<argc, w, h, ch, mem, heap, i, success, out, err, status,
                   stored, loaded, fills, active, nthreads, job, pool>>

\* printf("Time taken for ...: %.4f seconds\n", omp_get_wtime()-st);
Toc(at, lines, to) ==
    /\ pc = at
    /\ st' = FALSE
    /\ out' = out \o lines
    /\ trace' = Append(trace, Plain("toc"))
    /\ pc' = to

Time1 == Tic("time1", "call1")

\* the timed blur5 call blurring in place
Blur5CallInPlace ==
    /\ Invoke("call1", "blur5", "data", "data", "print1")
    /\ UNCHANGED <<argc, w, h, ch, mem, heap, st, i, success, out, err,
                   status, stored, loaded, fills, nthreads, job, pool>>

Blur5Call ==
    /\ Invoke("call1", "blur5", "data", "output1", "print1")
    /\ UNCHANGED <<argc, w, h, ch, mem, heap, st, i, success, out, err,
                   status, stored, loaded, fills, nthreads, job, pool>>

\* the blur5 duration line, then the "Running serial ..." line
Print1 ==
    /\ Toc("print1", <<LineBlur5, LineRunning>>, "time2")
    /\ UNCHANGED <<argc, w, h, ch, mem, heap, i, success, err, status,
                   stored, loaded, fills, active, nthreads, job, pool>>

Time2 == Tic("time2", "call2")

\* the second timed call calling blur5 again
SerialCallCopyPaste ==
    /\ Invoke("call2", "blur5", "data", "output2", "print2")
    /\ UNCHANGED <<argc, w, h, ch, mem, heap, st, i, success, out, err,
                   status, stored, loaded, fills, nthreads, job, pool>>

SerialCall ==
    /\ Invoke("call2", "blur5_serial", "data", "output2", "print2")
    /\ UNCHANGED <<argc, w, h, ch, mem, heap, st, i, success, out, err,
                   status, stored, loaded, fills, nthreads, job, pool>>

Print2 ==
    /\ Toc("print2", <<LineSerial>>, "time3")
    /\ UNCHANGED <<argc, w, h, ch, mem, heap, i, success, err, status,
                   stored, loaded, fills, active, nthreads, job, pool>>

Time3 == Tic("time3", "call3")

ParallelCall ==
    /\ Invoke("call3", "blur5_parallel", "data", "output3", "print3")
    /\ UNCHANGED <<argc, w, h, ch, mem, heap, st, i, success, out, err,
                   status, stored, loaded, fills, nthreads, job, pool>>

Print3 ==
    /\ Toc("print3", <<LineParallel>>, "check")
    /\ UNCHANGED <<argc, w, h, ch, mem, heap, i, success, err, status,
                   stored, loaded, fills, active, nthreads, job, pool>>

\* printf("Checking results ..."); bool success = true; for (int i = 0; ...
BeginCheck ==
    /\ pc = "check"
    /\ out' = Append(out, LineChecking)
    /\ success' = TRUE
    /\ i' = 0
    /\ trace' = Append(trace, Plain("compare"))
    /\ pc' = "cmp"
    /\ UNCHANGED <<argc, w, h, ch, mem, heap, st, err, status, stored,
                   loaded, fills, active, nthreads, job, pool>>

\* i++ on an int.  Overflow of a signed int is undefined: the build either
\* wraps to INT_MIN or keeps the induction variable in a wider register.
Incr(n) == IF n = IntMax THEN {IntMin, IntMax + 1} ELSE {n + 1}

\* one evaluation of i < w*h*ch and, if it holds, of the loop body and i++
CmpStep ==
    /\ pc = "cmp"
    /\ IF i < Size
       THEN IF 0 <= i
            THEN IF mem["output1"][i + 1] # mem["output2"][i + 1]
                 THEN /\ success' = FALSE
                      /\ pc' = "verdict"
                      /\ i' = i
                 ELSE /\ i' \in Incr(i)
                      /\ pc' = "cmp"
                      /\ success' = success
            \* output1[i], output2[i] with i < 0: a read outside the arrays,
            \* which faults or yields any two bytes
            ELSE \/ /\ pc' = "crashed"
                    /\ UNCHANGED <<i, success>>
                 \/ /\ success' = FALSE
                    /\ pc' = "verdict"
                    /\ i' = i
                 \/ /\ i' \in Incr(i)
                    /\ pc' = "cmp"
                    /\ success' = success
       ELSE /\ pc' = "verdict"
            /\ UNCHANGED <<i, success>>
    /\ UNCHANGED <<argc, w, h, ch, mem, heap, st, out, err, status, stored,
                   loaded, trace, fills, active, nthreads, job, pool>>

\* a mismatch treated as a failure of the process
VerdictFatal ==
    /\ pc = "verdict"
    /\ out' = Append(out, IF success THEN LineCorrect ELSE LineIncorrect)
    /\ trace' = Append(trace, Plain("verdict"))
    /\ IF success
       THEN pc' = "persist" /\ status' = status
       ELSE pc' = "exit" /\ status' = <<1>>
    /\ UNCHANGED <<argc, w, h, ch, mem, heap, st, i, success, err, stored,
                   loaded, fills, active, nthreads, job, pool>>

\* if (success) printf("... correct.") else printf("... incorrect.")
Verdict ==
    /\ pc = "verdict"
    /\ out' = Append(out, IF success THEN LineCorrect ELSE LineIncorrect)
    /\ trace' = Append(trace, Plain("verdict"))
    /\ pc' = "persist"
    /\ UNCHANGED <<argc, w, h, ch, mem, heap, st, i, success, err, status,
                   stored, loaded, fills, active, nthreads, job, pool>>

\* the persist step copying the reference output instead
PersistFromOutput2 ==
    /\ pc = "persist"
    /\ mem' = [mem EXCEPT !["data"] =
                 [k \in 1 .. Size |-> mem["output2"][k]]]
    /\ fills' = [fills EXCEPT !["data"] = Append(@, "memcpy")]
    /\ trace' = Append(trace, Ev("persist", "memcpy", "output2", "data"))
    /\ pc' = "store"
    /\ UNCHANGED <<argc, w, h, ch, heap, st, i, success, out, err, status,
                   stored, loaded, active, nthreads, job, pool>>

\* memcpy(data, output1, w*h*ch*sizeof(unsigned char));
Persist ==
    /\ pc = "persist"
    /\ mem' = [mem EXCEPT !["data"] =
                 [k \in 1 .. Size |-> mem["output1"][k]]]
    /\ fills' = [fills EXCEPT !["data"] = Append(@, "memcpy")]
    /\ trace' = Append(trace, Ev("persist", "memcpy", "output1", "data"))
    /\ pc' = "store"
    /\ UNCHANGED <<argc, w, h, ch, heap, st, i, success, out, err, status,
                   stored, loaded, active, nthreads, job, pool>>

\* writeImage(argv[2]);  the wrapper writes the image readImage returned
Store ==
    /\ pc = "store"
    /\ stored' = Append(stored, mem["data"])
    /\ trace' = Append(trace, Plain("store"))
    /\ pc' = "free"
    /\ UNCHANGED <<argc, w, h, ch, mem, heap, st, i, success, out, err,
                   status, loaded, fills, active, nthreads, job, pool>>

\* delete[] output1; delete[] output2; delete[] output3;
Free ==
    /\ pc = "free"
    /\ heap' = [b \in Buffers |-> IF b \in Outputs THEN "freed" ELSE heap[b]]
    /\ mem' = [b \in Buffers |-> IF b \in Outputs THEN <<>> ELSE mem[b]]
    /\ trace' = Append(trace, Plain("free"))
    /\ pc' = "return"
    /\ UNCHANGED <<argc, w, h, ch, st, i, success, out, err, status, stored,
                   loaded, fills, active, nthreads, job, pool>>

\* return 0;
Return ==
    /\ pc = "return"
    /\ status' = <<0>>
    /\ pc' = "exit"
    /\ UNCHANGED <<argc, w, h, ch, mem, heap, st, i, success, out, err,
                   stored, loaded, trace, fills, active, nthreads, job, pool>>

----------------------------------------------------------------------------
(* A variant as an external function: it returns with its destination     *)
(* filled with samples of its choosing and its source untouched.          *)

ExternReturn ==
    /\ pc = "called"
    /\ active # <<>>
    /\ LET c == active[1] IN
         /\ \E img \in Results(Size) :
              mem' = [mem EXCEPT ![c.dst] = img]
         /\ fills' = [fills EXCEPT ![c.dst] = Append(@, c.fn)]
         /\ trace' = Append(trace, Ev("ret", c.fn, c.src, c.dst))
         /\ pc' = c.ret
    /\ active' = <<>>
    /\ UNCHANGED <<argc, w, h, ch, heap, st, i, success, out, err, status,
                   stored, loaded, nthreads, job, pool>>

----------------------------------------------------------------------------
(* The three variants as the design document describes them: a box average *)
(* over a clamped 5-wide window, applied by one thread (blur5_serial), by  *)
(* workers owning contiguous row chunks (blur5), or by workers taking one  *)
(* row at a time (blur5_parallel).  One step writes one sample.            *)

\* the window reaches Radius samples each way
Radius == 2

Clamp(x, n) == {y \in 0 .. n - 1 : y >= x - Radius /\ y <= x + Radius}

RECURSIVE SumCells(_, _, _)
SumCells(cells, src, c) ==
    IF cells = {} THEN 0
    ELSE LET p == CHOOSE q \in cells : TRUE
         IN src[(p[1] * w + p[2]) * ch + c + 1]
              + SumCells(cells \ {p}, src, c)

\* the output sample at (row, col, c): the truncated mean of the in-bounds
\* samples of channel c in the window
Stencil(src, row, col, c) ==
    LET cells == Clamp(row, h) \X Clamp(col, w)
    IN  SumCells(cells, src, c) \div Cardinality(cells)

\* a whole blurred image
Blurred(src) ==
    [k \in 1 .. Size |->
        Stencil(src, (k - 1) \div (w * ch), ((k - 1) % (w * ch)) \div ch,
                (k - 1) % ch)]

\* rows lo .. hi - 1 in ascending order
RECURSIVE RowSeq(_, _)
RowSeq(lo, hi) == IF lo >= hi THEN <<>> ELSE <<lo>> \o RowSeq(lo + 1, hi)

\* first row of worker t's chunk when h rows are split over n workers, the
\* first h % n workers taking one row more
ChunkStart(t, n) ==
    (t - 1) * (h \div n) + (IF t - 1 < h % n THEN t - 1 ELSE h % n)

Chunk(t, n) == RowSeq(ChunkStart(t, n), ChunkStart(t + 1, n))

Idle == [rows |-> <<>>, k |-> 0]

\* the pool is created by the first parallel region and reused afterwards
PoolSizes == IF nthreads = 0 THEN 1 .. MaxWorkers ELSE {nthreads}

\* blur5_serial: the calling thread takes every row
SerialStart ==
    /\ pc = "called"
    /\ active # <<>>
    /\ active[1].fn = "blur5_serial"
    /\ job' = <<[rows |-> RowSeq(0, h), k |-> 0]>>
    /\ pc' = "running"
    /\ UNCHANGED <<argc, w, h, ch, mem, heap, st, i, success, out, err,
                   status, stored, loaded, trace, fills, active, nthreads,
                   pool>>

\* blur5: fork, each worker with its contiguous chunk of rows
Blur5Fork ==
    /\ pc = "called"
    /\ active # <<>>
    /\ active[1].fn = "blur5"
    /\ \E n \in PoolSizes :
         /\ nthreads' = n
         /\ job' = [t \in 1 .. n |-> [rows |-> Chunk(t, n), k |-> 0]]
    /\ pc' = "running"
    /\ UNCHANGED <<argc, w, h, ch, mem, heap, st, i, success, out, err,
                   status, stored, loaded, trace, fills, active, pool>>

\* blur5_parallel: fork, the rows in a shared pool
ParallelFork ==
    /\ pc = "called"
    /\ active # <<>>
    /\ active[1].fn = "blur5_parallel"
    /\ \E n \in PoolSizes :
         /\ nthreads' = n
         /\ job' = [t \in 1 .. n |-> Idle]
    /\ pool' = 0 .. h - 1
    /\ pc' = "running"
    /\ UNCHANGED <<argc, w, h, ch, mem, heap, st, i, success, out, err,
                   status, stored, loaded, trace, fills, active>>

\* an idle worker takes any row left in the pool
TakeRow(t) ==
    /\ pc = "running"
    /\ job[t].rows = <<>>
    /\ \E r \in pool :
         /\ job' = [job EXCEPT ![t] = [rows |-> <<r>>, k |-> 0]]
         /\ pool' = pool \ {r}
    /\ UNCHANGED <<pc, argc, w, h, ch, mem, heap, st, i, success, out, err,
                   status, stored, loaded, trace, fills, active, nthreads>>

\* worker t writes the next sample of its current row
WorkerStep(t) ==
    /\ pc = "running"
    /\ job[t].rows # <<>>
    /\ LET c   == active[1]
           row == Head(job[t].rows)
           k   == job[t].k
           v   == Stencil(mem[c.src], row, k \div ch, k % ch)
       IN  /\ mem' = [mem EXCEPT ![c.dst][row * w * ch + k + 1] = v]
           /\ job' = [job EXCEPT ![t] =
                        IF k + 1 = w * ch
                        THEN [rows |-> Tail(job[t].rows), k |-> 0]
                        ELSE [rows |-> job[t].rows, k |-> k + 1]]
    /\ UNCHANGED <<pc, argc, w, h, ch, heap, st, i, success, out, err,
                   status, stored, loaded, trace, fills, active, nthreads,
                   pool>>

\* the implicit barrier: the call returns once every worker has finished
Join ==
    /\ pc = "running"
    /\ pool = {}
    /\ \A t \in DOMAIN job : job[t].rows = <<>>
    /\ LET c == active[1] IN
         /\ fills' = [fills EXCEPT ![c.dst] = Append(@, c.fn)]
         /\ trace' = Append(trace, Ev("ret", c.fn, c.src, c.dst))
         /\ pc' = c.ret
    /\ active' = <<>>
    /\ job' = <<>>
    /\ UNCHANGED <<argc, w, h, ch, mem, heap, st, i, success, out, err,
                   status, stored, loaded, nthreads, pool>>

Harness ==
    \/ ArgCheck \/ Load \/ Alloc \/ Warmup
    \/ Time1 \/ Blur5Call \/ Print1
    \/ Time2 \/ SerialCall \/ Print2
    \/ Time3 \/ ParallelCall \/ Print3
    \/ BeginCheck \/ CmpStep \/ Verdict
    \/ Persist \/ Store \/ Free \/ Return

Next == Harness \/ ExternReturn

Spec == Init /\ [][Next]_vars

Variants ==
    \/ SerialStart \/ Blur5Fork \/ ParallelFork
    \/ (\E t \in DOMAIN job : TakeRow(t))
    \/ (\E t \in DOMAIN job : WorkerStep(t))
    \/ Join

NextBlur == Harness \/ Variants

SpecBlur == Init /\ [][NextBlur]_vars

----------------------------------------------------------------------------
(* Properties *)

Valid == argc >= 3

\* the outputs are still allocated and the verdict has been printed
Judged == pc \in {"persist", "store", "free"}

Printed(line) == \E k \in 1 .. Len(out) : out[k] = line

VerdictLines ==
    Cardinality({k \in 1 .. Len(out) : out[k] \in {LineCorrect, LineIncorrect}})

Differ(k) == mem["output1"][k + 1] # mem["output2"][k + 1]

Mismatch == \E k \in 0 .. Size - 1 : Differ(k)

FirstDiff ==
    CHOOSE k \in 0 .. Size - 1 : Differ(k) /\ \A j \in 0 .. k - 1 : ~Differ(j)

IsPrefix(s, t) == Len(s) <= Len(t) /\ \A k \in 1 .. Len(s) : s[k] = t[k]

\* C1: once the verdict is printed, exactly one verdict line has been
\* printed; it is "correct" exactly when output1[k] = output2[k] for every k
\* in 0 .. w*h*ch-1, and otherwise it is "incorrect" and the scan stopped at
\* the lowest differing index.
C1_VerdictIffEqual ==
    Judged =>
        /\ VerdictLines = 1
        /\ Printed(LineCorrect) <=> ~Mismatch
        /\ Mismatch => (Printed(LineIncorrect) /\ i = FirstDiff)

\* C2: when writeImage is called, the input buffer holds exactly what
\* blur5_serial produced.
C2_StoredIsSerial ==
    pc = "store" => mem["data"] = mem["output2"]

\* C2 (amended): when writeImage is called, the input buffer holds exactly
\* what the timed blur5 call produced in output1, and that is the image
\* writeImage is given, whatever the verdict.
C2_StoredIsBlur5 ==
    /\ pc = "store" => mem["data"] = mem["output1"]
    /\ pc = "free" => stored = <<mem["output1"]>>

C2_Witness ==
    /\ pc = "free"
    /\ stored = <<mem["output1"]>>
    /\ mem["output1"] # mem["output2"]
    /\ Printed(LineIncorrect)

\* the harness steps of a complete run, in order
FixedOrder ==
    << <<"load", "">>, <<"alloc", "">>,
       <<"call", "blur5">>, <<"ret", "blur5">>,
       <<"tic", "">>, <<"call", "blur5">>, <<"ret", "blur5">>, <<"toc", "">>,
       <<"tic", "">>, <<"call", "blur5_serial">>, <<"ret", "blur5_serial">>,
       <<"toc", "">>,
       <<"tic", "">>, <<"call", "blur5_parallel">>,
       <<"ret", "blur5_parallel">>, <<"toc", "">>,
       <<"compare", "">>, <<"verdict", "">>, <<"persist", "memcpy">>,
       <<"store", "">>, <<"free", "">> >>

Steps == [k \in 1 .. Len(trace) |-> <<trace[k].ev, trace[k].fn>>]

Calls(f) == Cardinality({k \in 1 .. Len(trace) :
                           trace[k].ev = "call" /\ trace[k].fn = f})

\* the lines on standard output before the verdict line
FixedLines ==
    <<LineBlur5, LineRunning, LineSerial, LineParallel, LineChecking>>

\* C3: the harness events always form a prefix of the one fixed order
\* (load, warm-up call and return, then bracket/call/return/duration line
\* for blur5, blur5_serial, blur5_parallel, then comparison, verdict,
\* store): a call returns before the next step starts, the warm-up call is
\* outside every bracket and each bracket holds one call, the duration
\* lines come out in the order blur5, serial, parallel before the verdict,
\* and by the comparison blur5 was called twice and the others once.
C3_FixedOrder ==
    /\ IsPrefix(Steps, FixedOrder)
    /\ \/ IsPrefix(out, FixedLines)
       \/ /\ Len(out) = Len(FixedLines) + 1
          /\ SubSeq(out, 1, Len(FixedLines)) = FixedLines
          /\ out[Len(out)] \in {LineCorrect, LineIncorrect}
    /\ active # <<>> => (st <=> active[1].ret # "time1")
    /\ pc \in {"cmp", "verdict"} =>
          /\ Calls("blur5") = 2
          /\ Calls("blur5_serial") = 1
          /\ Calls("blur5_parallel") = 1

C3_Witness ==
    /\ pc = "exit"
    /\ Steps = FixedOrder
    /\ Len(out) = Len(FixedLines) + 1

\* C4: with fewer than three arguments the process writes the usage line
\* to the error stream and returns non-zero, and nothing else ever happens:
\* no load, no allocation, no variant call, no standard output, no store.
C4_UsageError ==
    ~Valid =>
        /\ pc \in {"start", "exit"}
        /\ pc = "exit" => (err = <<Usage>> /\ status # <<>> /\ status # <<0>>)
        /\ out = <<>>
        /\ trace = <<>>
        /\ stored = <<>>
        /\ \A b \in Buffers : heap[b] = "none" /\ mem[b] = <<>>

C4_Witness ==
    /\ argc = 2
    /\ pc = "exit"
    /\ err = <<Usage>>
    /\ status = <<0 - 1>>

\* C5: a mismatch is no error state.  After either verdict the run cannot
\* stop short of returning; when it has returned, the image was stored
\* once, the three output buffers are released, the status is 0, nothing
\* went to the error stream, and standard output is the five fixed lines
\* followed by the verdict line.
C5_MismatchNotAnError ==
    /\ pc \in {"persist", "store", "free", "return"} => ENABLED Harness
    /\ (Valid /\ pc = "exit") =>
          /\ status = <<0>>
          /\ Len(stored) = 1
          /\ \A b \in Outputs : heap[b] = "freed"
          /\ err = <<>>
          /\ SubSeq(out, 1, Len(FixedLines)) = FixedLines
          /\ Len(out) = Len(FixedLines) + 1
          /\ out[Len(out)] \in {LineCorrect, LineIncorrect}

C5_Witness ==
    /\ pc = "exit"
    /\ Printed(LineIncorrect)
    /\ status = <<0>>
    /\ Len(stored) = 1

\* both compared buffers have been produced and are still allocated
BothFilled ==
    /\ fills["output1"] # <<>>
    /\ fills["output2"] # <<>>
    /\ heap["output1"] = "live"

\* blur5 leaves in output1 what blur5_serial leaves in output2
BlurEquivalence == BothFilled => mem["output1"] = mem["output2"]

\* and that is the box blur of the loaded image
SerialIsBlurred == BothFilled => mem["output2"] = Blurred(loaded)

\* C6: under every interleaving of the workers and every pool size, blur5
\* leaves output1 equal to what blur5_serial leaves in output2, and hence
\* the verdict the harness prints is "correct".
C6_ParallelEquivalence ==
    /\ BlurEquivalence
    /\ Judged => Printed(LineCorrect)

\* C7: every buffer is filled at most once: no output buffer by a second
\* variant call, and no buffer by a later step such as the persist step.
C7_FilledOnce == \A b \in Buffers : Len(fills[b]) <= 1

\* who has filled each buffer, at most
FillOrder ==
    [b \in Buffers |->
        CASE b = "data"    -> <<"readImage", "memcpy">>
          [] b = "output1" -> <<"blur5">>
          [] b = "output2" -> <<"blur5_serial">>
          [] b = "output3" -> <<"blur5", "blur5_parallel">>]

\* a buffer's contents change only when it is allocated, filled or released
WrittenOnlyByFill ==
    \A b \in Buffers :
        mem'[b] # mem[b] =>
            \/ fills'[b] # fills[b]
            \/ pc \in {"alloc", "free"}
            \/ (pc = "running" /\ active[1].dst = b)

\* C7 (amended): the three output buffers are allocated once; output1 is
\* filled once, by the timed blur5 call, and output2 once, by blur5_serial;
\* output3 is filled twice, by the warm-up blur5 call and then again by
\* blur5_parallel; the input buffer is filled by readImage and overwritten
\* once, by the persist step; and no buffer changes in any other step.
C7_Lifecycle ==
    /\ [](/\ \A b \in Buffers : IsPrefix(fills[b], FillOrder[b])
          /\ Cardinality({k \in 1 .. Len(trace) : trace[k].ev = "alloc"}) <= 1
          /\ pc \in {"check", "cmp", "verdict", "persist"} =>
                \A b \in Outputs : fills[b] = FillOrder[b]
          /\ pc \in {"store", "free", "return"} => fills = FillOrder)
    /\ [][WrittenOnlyByFill]_vars

C7_Witness ==
    /\ pc = "store"
    /\ fills["output3"] = <<"blur5", "blur5_parallel">>
    /\ fills["data"] = <<"readImage", "memcpy">>
    /\ mem["data"] # loaded

\* C8: every variant call has the loaded buffer as its source and one of
\* the three output buffers, never the source, as its destination; and the
\* source still holds the loaded image until the comparison is over.
C8_SourceNeverAliased ==
    /\ \A k \in 1 .. Len(trace) :
          trace[k].ev \in {"call", "ret"} =>
              (trace[k].src = "data" /\ trace[k].dst \in Outputs)
    /\ (heap["data"] = "live" /\ pc \notin {"store", "free", "return", "exit"})
          => mem["data"] = loaded

C8_Witness ==
    /\ pc = "persist"
    /\ Cardinality({k \in 1 .. Len(trace) : trace[k].ev = "ret"}) = 4
    /\ mem["data"] = loaded
    /\ mem["output1"] # loaded

\* C9: the verdict line and the stored image are fixed by output1 and
\* output2 alone, the buffers two such runs agree on: the verdict is
\* "correct" if they are equal and "incorrect" if not, and the image is
\* output1, whatever was written to output3.
C9_Output3Unused ==
    pc = "free" =>
        /\ out[Len(out)] =
              (IF mem["output1"] = mem["output2"]
               THEN LineCorrect ELSE LineIncorrect)
        /\ stored = <<mem["output1"]>>

\* C10: the loop index stays in 0 .. w*h*ch, it is below w*h*ch whenever
\* the body reads output1[i] and output2[i], and no read faults.
C10_IndexInRange ==
    /\ pc = "cmp" => (0 <= i /\ i <= Size)
    /\ pc # "crashed"

\* the same, for images of at most INT_MAX samples
IndexInRangeWithinInt == Size <= IntMax => C10_IndexInRange

\* the verdict is right for images of at most INT_MAX samples
VerdictWithinInt == Size <= IntMax => C1_VerdictIffEqual

====
